---- MODULE Spec2Model ----
(***************************************************************************)
(* A model of poziq: slicing an image into a grid of equally sized slices, *)
(* writing them to a directory, loading them back, validating them and     *)
(* assembling them (src/poziq/image.py), and the two commands that drive   *)
(* these functions (src/poziq/cli.py).                                     *)
(*                                                                         *)
(* Text (extensions, prefixes, file names) is a sequence of one-character  *)
(* strings, so that stripping, lower-casing, zero padding, pattern         *)
(* matching and lexicographic comparison are computed character by         *)
(* character.  An image is a record [w, h, px] whose px maps <<x, y>> to a *)
(* pixel; a pixel is a triple <<tag, x, y>>.                               *)
(***************************************************************************)
EXTENDS Integers, Sequences, FiniteSets, TLC

VARIABLES source, slices, dir, saved, last

vars == <<source, slices, dir, saved, last>>

(***************************************************************************)
(* Bounds of the model.                                                    *)
(***************************************************************************)
MaxExtLen == 3

MaxDots == 2

MaxDim == 3

MaxSlices == 4

MaxStale == 1

MaxDirFiles == 4

MaxFiles == 3

MaxGrid == 3

MaxCount == 60

MaxGeometry == 5

----------------------------------------------------------------------------
(***************************************************************************)
(* Characters and text.                                                    *)
(***************************************************************************)
UpperChars == <<"A", "B", "C", "D", "E", "F", "G", "H", "I", "J", "K", "L", "M",
                "N", "O", "P", "Q", "R", "S", "T", "U", "V", "W", "X", "Y", "Z">>

LowerChars == <<"a", "b", "c", "d", "e", "f", "g", "h", "i", "j", "k", "l", "m",
                "n", "o", "p", "q", "r", "s", "t", "u", "v", "w", "x", "y", "z">>

DigitChars == <<"0", "1", "2", "3", "4", "5", "6", "7", "8", "9">>

Range(f) == {f[i] : i \in DOMAIN f}

\* str.lower() on one character: 'A'..'Z' map to 'a'..'z', the rest is kept.
LowerChar(c) ==
    IF c \in Range(UpperChars)
    THEN LowerChars[CHOOSE i \in DOMAIN UpperChars : UpperChars[i] = c]
    ELSE c

\* str.lower()
Lower(s) == [i \in DOMAIN s |-> LowerChar(s[i])]

\* The mutant of LStripDots that removes one leading dot only.
LStripOneDot(s) == IF s # <<>> /\ Head(s) = "." THEN Tail(s) ELSE s

\* str.lstrip("."): every leading '.' is removed, not only the first.
RECURSIVE LStripDots(_)
LStripDots(s) == IF s # <<>> /\ Head(s) = "." THEN LStripDots(Tail(s)) ELSE s

----------------------------------------------------------------------------
(***************************************************************************)
(* validate_extension                                                      *)
(***************************************************************************)
SUPPORTED_EXTENSIONS ==
    { <<"p", "n", "g">>, <<"j", "p", "g">>, <<"j", "p", "e", "g">>,
      <<"b", "m", "p">>, <<"g", "i", "f">>, <<"t", "i", "f", "f">>,
      <<"w", "e", "b", "p">> }

\* The result of a call: the value returned, or the exception raised.
Ok(v) == [err |-> "", value |-> v, info |-> <<>>]

Raise(e) == [err |-> e, value |-> <<>>, info |-> <<>>]

\* An exception whose message names the numbers in info.
RaiseWith(e, info) == [err |-> e, value |-> <<>>, info |-> info]

validate_extension(extension) ==
    LET ext == Lower(LStripDots(extension))
    IN  IF ext \notin SUPPORTED_EXTENSIONS THEN Raise("UnsupportedFormat") ELSE Ok(ext)

----------------------------------------------------------------------------
(***************************************************************************)
(* Numbers as text.                                                        *)
(***************************************************************************)
\* str(n) for n >= 0
RECURSIVE Str(_)
Str(n) ==
    IF n < 10 THEN <<DigitChars[n + 1]>>
    ELSE Str(n \div 10) \o <<DigitChars[(n % 10) + 1]>>

RECURSIVE ZeroFill(_, _)
ZeroFill(s, width) == IF Len(s) >= width THEN s ELSE ZeroFill(<<"0">> \o s, width)

\* The mutant of FormatIndex that does not pad.
FormatIndexUnpadded(idx, padding) == Str(idx)

\* f"{idx:0{padding}d}"
FormatIndex(idx, padding) == ZeroFill(Str(idx), padding)

DigitValue(c) == (CHOOSE i \in DOMAIN DigitChars : DigitChars[i] = c) - 1

IsDigits(s) == s # <<>> /\ \A i \in DOMAIN s : s[i] \in Range(DigitChars)

\* int(s) for a non-empty string of decimal digits
RECURSIVE ParseInt(_)
ParseInt(s) ==
    IF Len(s) = 1 THEN DigitValue(s[1])
    ELSE 10 * ParseInt(SubSeq(s, 1, Len(s) - 1)) + DigitValue(s[Len(s)])

----------------------------------------------------------------------------
(***************************************************************************)
(* Images: Image.new, Image.crop, Image.paste of the codec library.        *)
(***************************************************************************)
Coords(w, h) == (0 .. (w - 1)) \X (0 .. (h - 1))

\* The pixel Image.new leaves everywhere.
Fill == <<"fill", 0, 0>>

\* Image.new(mode, (w, h))
NewImage(w, h) == [w |-> w, h |-> h, px |-> [p \in Coords(w, h) |-> Fill]]

Size(img) == <<img.w, img.h>>

\* image.crop((left, top, right, bottom)), for a box inside the image
Crop(img, box) ==
    LET w == box[3] - box[1]
        h == box[4] - box[2]
    IN  [w |-> w, h |-> h,
         px |-> [p \in Coords(w, h) |-> img.px[<<box[1] + p[1], box[2] + p[2]>>]]]

\* dst.paste(src, (x, y)): the part of src that falls outside dst is dropped.
Paste(dst, src, x, y) ==
    [dst EXCEPT !.px =
        [p \in Coords(dst.w, dst.h) |->
            IF /\ x <= p[1] /\ p[1] < x + src.w
               /\ y <= p[2] /\ p[2] < y + src.h
            THEN src.px[<<p[1] - x, p[2] - y>>]
            ELSE dst.px[p]]]

Min(a, b) == IF a < b THEN a ELSE b

\* The mutant of CeilDiv that rounds down.
FloorDiv(a, b) == a \div b

\* math.ceil(a / b) for a >= 0, b > 0
CeilDiv(a, b) == (a + b - 1) \div b

----------------------------------------------------------------------------
(***************************************************************************)
(* slice_image                                                             *)
(***************************************************************************)
CellBox(row, col, slice_size, width, height) ==
    << col * slice_size,
       row * slice_size,
       Min((col + 1) * slice_size, width),
       Min((row + 1) * slice_size, height) >>

\* The body of the two loops: crop the cell, pad an edge piece to full size.
SliceCell(image, row, col, slice_size) ==
    LET slice_img == Crop(image, CellBox(row, col, slice_size, image.w, image.h))
    IN  IF Size(slice_img) # <<slice_size, slice_size>>
        THEN Paste(NewImage(slice_size, slice_size), slice_img, 0, 0)
        ELSE slice_img

RECURSIVE SliceCols(_, _, _, _, _)
SliceCols(image, row, col, cols, slice_size) ==
    IF col >= cols THEN <<>>
    ELSE <<SliceCell(image, row, col, slice_size)>>
         \o SliceCols(image, row, col + 1, cols, slice_size)

\* The mutant of SliceRows that walks the grid column by column.
SliceRowsColumnMajor(image, row, rows, cols, slice_size) ==
    LET n == rows * cols
    IN  [k \in 1 .. n |->
            SliceCell(image, (k - 1) % rows, (k - 1) \div rows, slice_size)]

RECURSIVE SliceRows(_, _, _, _, _)
SliceRows(image, row, rows, cols, slice_size) ==
    IF row >= rows THEN <<>>
    ELSE SliceCols(image, row, 0, cols, slice_size)
         \o SliceRows(image, row + 1, rows, cols, slice_size)

\* rows = math.ceil(height / slice_size), cols = math.ceil(width / slice_size)
SizeGeometry(width, height, slice_size) ==
    [rows |-> CeilDiv(height, slice_size), cols |-> CeilDiv(width, slice_size),
     slice_width |-> slice_size, slice_height |-> slice_size]

slice_image(image, slice_size) ==
    IF slice_size <= 0 THEN Raise("InvalidArgument")
    ELSE IF image.w < slice_size \/ image.h < slice_size THEN Raise("InvalidArgument")
    ELSE LET g == SizeGeometry(image.w, image.h, slice_size)
         IN  Ok(SliceRows(image, 0, g.rows, g.cols, slice_size))

\* Grid Geometry in grid mode: the slice size is derived from the rows and
\* columns asked for.
GridGeometry(width, height, rows, cols) ==
    [rows |-> rows, cols |-> cols,
     slice_width |-> CeilDiv(width, cols), slice_height |-> CeilDiv(height, rows)]

\* Grid Geometry in dimensions mode: the rows and columns are derived from
\* the slice size asked for.
DimensionsGeometry(width, height, slice_width, slice_height) ==
    [rows |-> CeilDiv(height, slice_height), cols |-> CeilDiv(width, slice_width),
     slice_width |-> slice_width, slice_height |-> slice_height]

\* The geometry of a SliceSpec: [mode |-> "size", slice_size],
\* [mode |-> "grid", rows, cols] or [mode |-> "dimensions", width, height].
Geometry(width, height, spec) ==
    IF spec.mode = "size"
    THEN IF spec.slice_size <= 0 \/ width < spec.slice_size \/ height < spec.slice_size
         THEN Raise("InvalidArgument")
         ELSE Ok(SizeGeometry(width, height, spec.slice_size))
    ELSE IF spec.mode = "grid"
    THEN IF spec.rows <= 0 \/ spec.cols <= 0 THEN Raise("InvalidArgument")
         ELSE Ok(GridGeometry(width, height, spec.rows, spec.cols))
    ELSE IF spec.width <= 0 \/ spec.height <= 0 THEN Raise("InvalidArgument")
         ELSE Ok(DimensionsGeometry(width, height, spec.width, spec.height))

----------------------------------------------------------------------------
(***************************************************************************)
(* The directory: a function from file names to the images stored there.   *)
(***************************************************************************)
EmptyDir == [n \in {} |-> NewImage(0, 0)]

----------------------------------------------------------------------------
(***************************************************************************)
(* save_slices                                                             *)
(***************************************************************************)
PngSuffix == <<".", "p", "n", "g">>

\* output_dir / f"{prefix}_{idx:0{padding}d}.png"
SliceName(prefix, idx, padding) ==
    prefix \o <<"_">> \o FormatIndex(idx, padding) \o PngSuffix

\* What the loop over enumerate(slices) leaves: the path of every slice in
\* index order, and in the directory under each path the slice that was
\* written there last.
save_slices(imgs, d, prefix) ==
    LET padding == Len(Str(Len(imgs)))
        saved_paths == [i \in DOMAIN imgs |-> SliceName(prefix, i - 1, padding)]
        written(name) == {i \in DOMAIN imgs : saved_paths[i] = name}
    IN  [dir |-> [name \in (DOMAIN d) \cup Range(saved_paths) |->
                    IF written(name) # {}
                    THEN imgs[CHOOSE i \in written(name) : \A j \in written(name) : j <= i]
                    ELSE d[name]],
         paths |-> saved_paths]

----------------------------------------------------------------------------
(***************************************************************************)
(* load_slices                                                             *)
(***************************************************************************)
EndsWith(s, suffix) ==
    /\ Len(s) >= Len(suffix)
    /\ SubSeq(s, Len(s) - Len(suffix) + 1, Len(s)) = suffix

\* slice_dir.glob(f"*.{extension}"): the names the glob yields, as a set.
GlobMatches(d, extension) ==
    {n \in DOMAIN d : EndsWith(n, <<".">> \o extension)}

\* The orders in which the glob may yield a set of names.
RECURSIVE Listings(_)
Listings(S) ==
    IF S = {} THEN {<<>>}
    ELSE UNION {{<<n>> \o l : l \in Listings(S \ {n})} : n \in S}

\* One character of the prefix read as a regular expression: the prefix is
\* interpolated unescaped, so '.' matches any character; a letter, a digit
\* or '_' matches itself.
RegexCharMatches(pc, c) == pc = "." \/ pc = c

\* re.compile(rf"{prefix}_(\d+)\.{extension}$").match(name): group 1 when
\* the name matches, <<>> when it does not.  The prefixes of the model are
\* made of characters that each match one character, so the prefix takes
\* the first Len(prefix) characters, the extension the last ones and the
\* digits all that is between.
PatternGroup(name, prefix, extension) ==
    LET first == Len(prefix) + 2
        last_ == Len(name) - Len(extension) - 1
        digits == SubSeq(name, first, last_)
    IN  IF /\ Len(name) >= Len(prefix) + Len(extension) + 3
           /\ \A i \in DOMAIN prefix : RegexCharMatches(prefix[i], name[i])
           /\ name[Len(prefix) + 1] = "_"
           /\ IsDigits(digits)
           /\ EndsWith(name, <<".">> \o extension)
        THEN digits
        ELSE <<>>

\* The loop over the glob: one (img, idx) per matching name, in glob order.
RECURSIVE LoadLoop(_, _, _, _)
LoadLoop(d, listing, prefix, extension) ==
    IF listing = <<>> THEN <<>>
    ELSE LET name == Head(listing)
             group == PatternGroup(name, prefix, extension)
             rest == LoadLoop(d, Tail(listing), prefix, extension)
         IN  IF group # <<>>
             THEN <<[img |-> d[name], idx |-> ParseInt(group)]>> \o rest
             ELSE rest

\* Where a stable sort puts e among the sorted s: after every item whose
\* key is not greater.
RECURSIVE InsertByIdx(_, _)
InsertByIdx(s, e) ==
    IF s = <<>> THEN <<e>>
    ELSE IF Head(s).idx <= e.idx THEN <<Head(s)>> \o InsertByIdx(Tail(s), e)
    ELSE <<e>> \o s

\* sorted(slices, key=lambda x: x[1])
RECURSIVE SortByIdx(_)
SortByIdx(s) ==
    IF s = <<>> THEN <<>>
    ELSE InsertByIdx(SortByIdx(SubSeq(s, 1, Len(s) - 1)), s[Len(s)])

\* listing is the order in which the glob happens to yield its names.
load_slices(d, listing, prefix, extension) ==
    LET ext == validate_extension(extension)
    IN  IF ext.err # "" THEN ext
        ELSE LET found == LoadLoop(d, listing, prefix, ext.value)
             IN  IF found = <<>> THEN Raise("NoSlicesFound")
                 ELSE Ok(SortByIdx(found))

\* Every result load_slices can give on a directory.
LoadOutcomes(d, prefix, extension) ==
    LET ext == validate_extension(extension)
    IN  IF ext.err # "" THEN {ext}
        ELSE {load_slices(d, listing, prefix, extension) :
                listing \in Listings(GlobMatches(d, ext.value))}

----------------------------------------------------------------------------
(***************************************************************************)
(* validate_dimensions                                                     *)
(***************************************************************************)
\* The position of the first item of the loop whose size is not (w, h);
\* 0 when there is none.
FirstMismatch(items, w, h) ==
    LET bad == {k \in DOMAIN items : Size(items[k].img) # <<w, h>>}
    IN  IF bad = {} THEN 0 ELSE CHOOSE k \in bad : \A j \in bad : k <= j

\* The mutant of validate_dimensions that checks sizes before the count.
validate_dimensions_size_first(items, rows, cols) ==
    IF items = <<>> THEN Raise("NoSlicesProvided")
    ELSE LET slice_width == items[1].img.w
             slice_height == items[1].img.h
             k == FirstMismatch(items, slice_width, slice_height)
         IN  IF k # 0
             THEN RaiseWith("SizeMismatch", <<items[k].idx>>)
             ELSE IF Len(items) # rows * cols
             THEN RaiseWith("CountMismatch", <<rows * cols, Len(items)>>)
             ELSE Ok(<<slice_width, slice_height>>)

validate_dimensions(items, rows, cols) ==
    IF items = <<>> THEN Raise("NoSlicesProvided")
    ELSE LET expected_slices == rows * cols
         IN  IF Len(items) # expected_slices
             THEN RaiseWith("CountMismatch", <<expected_slices, Len(items)>>)
             ELSE LET slice_width == items[1].img.w
                      slice_height == items[1].img.h
                      k == FirstMismatch(items, slice_width, slice_height)
                  IN  IF k # 0
                      THEN RaiseWith("SizeMismatch", <<items[k].idx>>)
                      ELSE Ok(<<slice_width, slice_height>>)

----------------------------------------------------------------------------
(***************************************************************************)
(* assemble_image                                                          *)
(***************************************************************************)
\* The mutant of PasteOrigin that exchanges the row and the column.
PasteOriginTransposed(idx, cols, slice_width, slice_height) ==
    <<(idx \div cols) * slice_width, (idx % cols) * slice_height>>

\* row = idx // cols, col = idx % cols, x = col * slice_width, y = row * slice_height
PasteOrigin(idx, cols, slice_width, slice_height) ==
    <<(idx % cols) * slice_width, (idx \div cols) * slice_height>>

\* The loop "for img, idx in slices", from position k on.
RECURSIVE PasteAll(_, _, _, _, _, _)
PasteAll(img, items, k, cols, slice_width, slice_height) ==
    IF k > Len(items) THEN img
    ELSE LET at == PasteOrigin(items[k].idx, cols, slice_width, slice_height)
         IN  PasteAll(Paste(img, items[k].img, at[1], at[2]),
                      items, k + 1, cols, slice_width, slice_height)

\* assemble_image once load_slices has returned its result.
AssembleLoaded(found, rows, cols) ==
    IF found.err # "" THEN found
    ELSE LET dims == validate_dimensions(found.value, rows, cols)
         IN  IF dims.err # "" THEN dims
             ELSE LET slice_width == dims.value[1]
                      slice_height == dims.value[2]
                      width == cols * slice_width
                      height == rows * slice_height
                  IN  Ok(PasteAll(NewImage(width, height), found.value, 1,
                                  cols, slice_width, slice_height))

assemble_image(d, listing, rows, cols, prefix, extension) ==
    AssembleLoaded(load_slices(d, listing, prefix, extension), rows, cols)

----------------------------------------------------------------------------
(***************************************************************************)
(* The slice command (cli.slice).                                          *)
(*                                                                         *)
(* An option that was not given is <<>>, one that was given is <<n>>.      *)
(***************************************************************************)
\* The parameters of image.slice_image and of image.save_slices.
SliceImageParams == <<"image_path", "slice_size">>

SaveSlicesParams == <<"slices", "output_dir", "prefix">>

\* The call image.slice_image(image_path, rows=, cols=, slice_width=, slice_height=)
SliceImageCallKeywords == {"rows", "cols", "slice_width", "slice_height"}

\* Binding positional arguments and keywords to the parameters of a
\* function none of which has a default: TypeError when a keyword names no
\* parameter, when there are more positional arguments than parameters, or
\* when a parameter is left without a value.
CallError(params, positional, keywords) ==
    LET bound == {params[i] : i \in {j \in DOMAIN params : j <= positional}} \cup keywords
    IN  IF \/ positional > Len(params)
           \/ keywords \ Range(params) # {}
           \/ Range(params) \ bound # {}
        THEN "TypeError"
        ELSE ""

\* The exception that ends the try block of the slice command.
SliceCommandError(rows, cols, slice_width, slice_height, extension) ==
    LET using_dimensions == slice_width # <<>> \/ slice_height # <<>>
        using_grid == rows # <<>> /\ cols # <<>>
    IN  IF ~(using_dimensions \/ using_grid) THEN "UsageError"
        ELSE IF validate_extension(extension).err # "" THEN "UnsupportedFormat"
        ELSE IF CallError(SliceImageParams, 1, SliceImageCallKeywords) # ""
        THEN CallError(SliceImageParams, 1, SliceImageCallKeywords)
        ELSE CallError(SaveSlicesParams, 4, {})

----------------------------------------------------------------------------
(***************************************************************************)
(* The assemble command (cli.assemble).                                    *)
(*                                                                         *)
(* output_path is a name in the slice directory, as in the tests           *)
(* (temp_dir / "assembled.png").  A file of no bytes is the image of size  *)
(* 0 x 0: the codec cannot identify it.                                    *)
(***************************************************************************)
EmptyFile == NewImage(0, 0)

\* The positions of the dots in a name that are not its first character.
SuffixDots(name) == {i \in DOMAIN name : i > 1 /\ name[i] = "."}

\* output_path.suffix: the last dot of the name and what follows it, or
\* nothing when the name has no dot after its first character.
Suffix(name) ==
    IF SuffixDots(name) = {} THEN <<>>
    ELSE SubSeq(name, CHOOSE i \in SuffixDots(name) :
                          \A j \in SuffixDots(name) : j <= i, Len(name))

\* Image.open(file_path) inside load_slices fails on a matching file that
\* is no image; the OSError is raised again as a ValueError.
OpenFails(d, prefix, extension) ==
    LET ext == validate_extension(extension)
    IN  /\ ext.err = ""
        /\ \E n \in GlobMatches(d, ext.value) :
              PatternGroup(n, prefix, ext.value) # <<>> /\ d[n] = EmptyFile

\* Every result load_slices can give the command, on a directory that may
\* hold files that are no images.
CommandLoadOutcomes(d, prefix, extension) ==
    IF OpenFails(d, prefix, extension) THEN {Raise("Decode")}
    ELSE LoadOutcomes(d, prefix, extension)

\* The formats that cannot hold the RGBA image assemble_image returns:
\* saving it under one of them raises OSError.
NoAlphaFormats == {<<"j", "p", "g">>, <<"j", "p", "e", "g">>}

\* The class of the exception behind each error of the model.
ExceptionClass(err) == IF err = "SaveFailed" THEN "OSError" ELSE "ValueError"

\* The except clauses of the command: a message on stderr, then
\* click.Abort, which ends the process with status 1.
Handle(err) ==
    LET class == ExceptionClass(err)
        message == IF class \in {"ValueError", "TypeError"} THEN <<"Error: ", err>>
                   ELSE IF class \in {"FileNotFoundError", "NotADirectoryError"}
                   THEN <<"Error: Directory not found">>
                   ELSE <<"Error: Failed to process images: ", err>>
    IN  [err |-> err, value |-> 1, info |-> message]

\* assembled.save(output_path): the file is opened for writing, which
\* creates it or empties it; when the encoder fails, a file that save
\* created is removed again and one that existed stays empty.
SaveImage(d, output_path, img, output_ext) ==
    IF output_ext \in NoAlphaFormats
    THEN [dir |-> IF output_path \in DOMAIN d
                  THEN [n \in DOMAIN d |-> IF n = output_path THEN EmptyFile ELSE d[n]]
                  ELSE d,
          err |-> "SaveFailed"]
    ELSE [dir |-> [n \in (DOMAIN d) \cup {output_path} |->
                      IF n = output_path THEN img ELSE d[n]],
          err |-> ""]

\* The mutant of assemble_command that saves a blank image of the grid's
\* size at output_path before it validates the slices.
assemble_command_save_first(d, found, output_path, rows, cols) ==
    LET output_ext == Lower(LStripDots(Suffix(output_path)))
        blank == SaveImage(d, output_path, NewImage(cols, rows), output_ext)
        assembled == AssembleLoaded(found, rows, cols)
    IN  IF output_ext \notin SUPPORTED_EXTENSIONS
        THEN [dir |-> d, res |-> Handle("UnsupportedFormat")]
        ELSE IF blank.err # "" THEN [dir |-> blank.dir, res |-> Handle(blank.err)]
        ELSE IF assembled.err # "" THEN [dir |-> blank.dir, res |-> Handle(assembled.err)]
        ELSE [dir |-> SaveImage(d, output_path, assembled.value, output_ext).dir,
              res |-> [err |-> "", value |-> 0, info |-> <<"Successfully assembled">>]]

\* The body of the command once load_slices has given found: the directory
\* it leaves and its result (err, exit status in value, message in info).
assemble_command(d, found, output_path, rows, cols) ==
    LET output_ext == Lower(LStripDots(Suffix(output_path)))
        assembled == AssembleLoaded(found, rows, cols)
        written == SaveImage(d, output_path, assembled.value, output_ext)
    IN  IF output_ext \notin SUPPORTED_EXTENSIONS
        THEN [dir |-> d, res |-> Handle("UnsupportedFormat")]
        ELSE IF assembled.err # "" THEN [dir |-> d, res |-> Handle(assembled.err)]
        ELSE IF written.err # "" THEN [dir |-> written.dir, res |-> Handle(written.err)]
        ELSE [dir |-> written.dir,
              res |-> [err |-> "", value |-> 0, info |-> <<"Successfully assembled">>]]

----------------------------------------------------------------------------
(***************************************************************************)
(* The state machine: a source image, the slices the caller holds, the     *)
(* output directory, and the last call with its result.                    *)
(***************************************************************************)
\* The source image: every pixel differs from every other and from Fill.
SourceImage(w, h) ==
    [w |-> w, h |-> h, px |-> [p \in Coords(w, h) |-> <<"src", p[1], p[2]>>]]

\* An image of one colour, the colour named by tag.
Solid(w, h, tag) == [w |-> w, h |-> h, px |-> [p \in Coords(w, h) |-> <<tag, 0, 0>>]]

DefaultPrefix == <<"s", "l", "i", "c", "e">>

DottedPrefix == <<"s", "l", ".", "c", "e">>

Prefixes == {DefaultPrefix, DottedPrefix}

SavePrefixes == {DefaultPrefix}

Png == <<"p", "n", "g">>

Jpg == <<"j", "p", "g">>

FileName(stem, index, extension) == stem \o <<"_">> \o index \o <<".">> \o extension

\* The files a directory may hold before the program runs on it.
Files ==
    { [name |-> FileName(DefaultPrefix, <<"0">>, Png),      img |-> Solid(1, 1, "f0")],
      [name |-> FileName(DefaultPrefix, <<"0", "0">>, Png), img |-> Solid(1, 1, "f00")],
      [name |-> FileName(DefaultPrefix, <<"1">>, Png),      img |-> Solid(1, 1, "f1")],
      [name |-> FileName(DefaultPrefix, <<"2">>, Png),      img |-> Solid(2, 1, "f2")],
      [name |-> FileName(DefaultPrefix, <<"7">>, Png),      img |-> Solid(1, 1, "f7")],
      [name |-> FileName(DefaultPrefix, <<"1">>, Jpg),      img |-> Solid(1, 1, "j1")],
      [name |-> FileName(DefaultPrefix, <<"x">>, Png),      img |-> Solid(1, 1, "fx")],
      [name |-> FileName(<<"x">> \o DefaultPrefix, <<"3">>, Png), img |-> Solid(1, 1, "x3")],
      [name |-> FileName(<<"s", "l", "u", "c", "e">>, <<"3">>, Png),
                                                             img |-> Solid(1, 1, "u3")] }

\* The files an output directory may hold before the slicer writes to it.
StaleFiles ==
    { [name |-> FileName(DefaultPrefix, <<"0", "0">>, Png), img |-> Solid(1, 1, "f00")],
      [name |-> FileName(DefaultPrefix, <<"x">>, Png),      img |-> Solid(1, 1, "fx")] }

\* The directory that holds the files of F (no two of which share a name).
DirOf(F) == [n \in {f.name : f \in F} |-> (CHOOSE f \in F : f.name = n).img]

SubsetsUpTo(S, n) == {F \in SUBSET S : Cardinality(F) <= n}

LoadExtensions == {Png, <<".", "P", "N", "G">>, Jpg, <<"t", "x", "t">>}

AssembleExtensions == {Png, Jpg}

CommandExtensions == {Png, <<"w", "e", "b", "p">>, <<"t", "x", "t">>}

Optional(S) == {<<>>} \cup {<<n>> : n \in S}

\* The option sets of the slice command that the model runs.
CommandLines ==
    { [rows |-> <<2>>, cols |-> <<2>>, slice_width |-> <<>>, slice_height |-> <<>>],
      [rows |-> <<>>, cols |-> <<>>, slice_width |-> <<2>>, slice_height |-> <<2>>],
      [rows |-> <<2>>, cols |-> <<>>, slice_width |-> <<>>, slice_height |-> <<>>] }

NoSave == [prefix |-> <<>>, paths |-> <<>>]

NoArgs == [none |-> TRUE]

Start == [op |-> "start", args |-> NoArgs, res |-> Ok(<<>>)]

\* slices = slice_image(image_path, slice_size)
SliceImage(slice_size) ==
    LET res == slice_image(source, slice_size)
    IN  /\ res.err = "" => Len(res.value) <= MaxSlices
        /\ slices' = IF res.err = "" THEN res.value ELSE slices
        /\ saved' = IF res.err = "" THEN NoSave ELSE saved
        /\ last' = [op |-> "slice_image", args |-> [slice_size |-> slice_size],
                    res |-> res]
        /\ UNCHANGED <<source, dir>>

\* save_slices(slices, output_dir, prefix).  saved keeps what the call
\* wrote for as long as the caller holds the same slices.
SaveSlices(prefix) ==
    LET out == save_slices(slices, dir, prefix)
    IN  /\ dir' = out.dir
        /\ saved' = [prefix |-> prefix, paths |-> out.paths]
        /\ last' = [op |-> "save_slices", args |-> [prefix |-> prefix],
                    res |-> Ok(out.paths)]
        /\ UNCHANGED <<source, slices>>

\* load_slices(slice_dir, prefix, extension)
LoadSlices(prefix, extension) ==
    \E res \in LoadOutcomes(dir, prefix, extension) :
        /\ last' = [op |-> "load_slices",
                    args |-> [prefix |-> prefix, extension |-> extension],
                    res |-> res]
        /\ UNCHANGED <<source, slices, dir, saved>>

\* The list a caller of validate_dimensions holds: what load_slices has
\* just returned, or an empty list.
Held == IF last.op = "load_slices" /\ last.res.err = "" THEN last.res.value ELSE <<>>

\* validate_dimensions(slices, rows, cols)
ValidateDimensions(rows, cols) ==
    /\ last' = [op |-> "validate_dimensions",
                args |-> [items |-> Held, rows |-> rows, cols |-> cols],
                res |-> validate_dimensions(Held, rows, cols)]
    /\ UNCHANGED <<source, slices, dir, saved>>

\* assemble_image(slice_dir, rows, cols, prefix, extension)
AssembleImage(prefix, extension) ==
    \E found \in LoadOutcomes(dir, prefix, extension) :
      \E rows \in 1 .. MaxGrid, cols \in 1 .. MaxGrid :
        /\ last' = [op |-> "assemble_image",
                    args |-> [rows |-> rows, cols |-> cols, prefix |-> prefix,
                              extension |-> extension],
                    res |-> AssembleLoaded(found, rows, cols)]
        /\ UNCHANGED <<source, slices, dir, saved>>

\* poziq slice IMAGE_PATH OUTPUT_DIR [--rows] [--cols] [--slice-width]
\* [--slice-height] [--prefix] [--extension]: every path through the try
\* block ends in an exception before save_slices writes anything, and the
\* handlers echo the error and abort.
SliceCommand(rows, cols, slice_width, slice_height, prefix, extension) ==
    /\ last' = [op |-> "slice_command",
                args |-> [rows |-> rows, cols |-> cols, slice_width |-> slice_width,
                          slice_height |-> slice_height, prefix |-> prefix,
                          extension |-> extension],
                res |-> Raise(SliceCommandError(rows, cols, slice_width,
                                                slice_height, extension))]
    /\ UNCHANGED <<source, slices, dir, saved>>

(***************************************************************************)
(* Spec: the slicer's side.  A source image is sliced, the slices are      *)
(* written to an output directory that may already hold a file, and the    *)
(* directory is assembled again.                                           *)
(***************************************************************************)
Init ==
    /\ source \in {SourceImage(w, h) : w \in 1 .. MaxDim, h \in 1 .. MaxDim}
    /\ slices = <<>>
    /\ dir \in {DirOf(F) : F \in SubsetsUpTo(StaleFiles, MaxStale)}
    /\ saved = NoSave
    /\ last = Start

Next ==
    \/ \E slice_size \in 0 .. MaxDim : SliceImage(slice_size)
    \/ \E prefix \in SavePrefixes :
            SaveSlices(prefix) /\ Cardinality(DOMAIN dir') <= MaxDirFiles
    \/ \E prefix \in Prefixes : AssembleImage(prefix, Png)
    \/ \E c \in CommandLines, prefix \in Prefixes, extension \in CommandExtensions :
            SliceCommand(c.rows, c.cols, c.slice_width, c.slice_height,
                         prefix, extension)

Spec == Init /\ [][Next]_vars

(***************************************************************************)
(* SpecAssemble: the assembler's side.  The directory holds any few of     *)
(* Files; it is loaded, what was loaded is validated, and it is assembled. *)
(***************************************************************************)
InitAssemble ==
    /\ source = NewImage(0, 0)
    /\ slices = <<>>
    /\ dir \in {DirOf(F) : F \in SubsetsUpTo(Files, MaxFiles)}
    /\ saved = NoSave
    /\ last = Start

NextAssemble ==
    \/ \E prefix \in Prefixes, extension \in LoadExtensions :
            LoadSlices(prefix, extension)
    \/ \E rows \in 0 .. MaxGrid, cols \in 0 .. MaxGrid : ValidateDimensions(rows, cols)
    \/ \E prefix \in Prefixes, extension \in AssembleExtensions :
            AssembleImage(prefix, extension)

SpecAssemble == InitAssemble /\ [][NextAssemble]_vars

(***************************************************************************)
(* SpecNames: save_slices on n one-pixel slices in an empty directory.     *)
(***************************************************************************)
Counts == (1 .. MaxCount) \cup {99, 100, 101, 999, 1000}

InitNames ==
    /\ source = NewImage(0, 0)
    /\ \E n \in Counts : slices = [i \in 1 .. n |-> Solid(1, 1, "s")]
    /\ dir = EmptyDir
    /\ saved = NoSave
    /\ last = Start

NextNames == last.op = "start" /\ SaveSlices(DefaultPrefix)

SpecNames == InitNames /\ [][NextNames]_vars

(***************************************************************************)
(* SpecExtension: validate_extension on short texts.                       *)
(***************************************************************************)
RECURSIVE TextsUpTo(_, _)
TextsUpTo(alphabet, n) ==
    IF n = 0 THEN {<<>>}
    ELSE LET shorter == TextsUpTo(alphabet, n - 1)
         IN  shorter \cup {<<c>> \o s : c \in alphabet, s \in {x \in shorter : Len(x) = n - 1}}

UpperChar(c) ==
    IF c \in Range(LowerChars)
    THEN UpperChars[CHOOSE i \in DOMAIN LowerChars : LowerChars[i] = c]
    ELSE c

Upper(s) == [i \in DOMAIN s |-> UpperChar(s[i])]

Capitalized(s) == [i \in DOMAIN s |-> IF i = 1 THEN UpperChar(s[i]) ELSE s[i]]

Dots(k) == [i \in 1 .. k |-> "."]

ExtensionInputs ==
    TextsUpTo({".", "p", "n", "g", "P"}, MaxExtLen)
    \cup { Dots(k) \o x :
             k \in 0 .. MaxDots,
             x \in UNION {{s, Upper(s), Capitalized(s), s \o <<".">>} :
                            s \in SUPPORTED_EXTENSIONS
                                  \cup {<<"t", "x", "t">>, <<"d", "o", "c">>, <<>>,
                                        <<"i", "n", "v", "a", "l", "i", "d">>}} }

InitExtension ==
    /\ source = NewImage(0, 0)
    /\ slices = <<>>
    /\ dir = EmptyDir
    /\ saved = NoSave
    /\ \E e \in ExtensionInputs :
          last = [op |-> "start", args |-> [extension |-> e], res |-> Ok(<<>>)]

\* validate_extension(extension)
ValidateExtension ==
    /\ last.op = "start"
    /\ last' = [op |-> "validate_extension", args |-> last.args,
                res |-> validate_extension(last.args.extension)]
    /\ UNCHANGED <<source, slices, dir, saved>>

NextExtension == ValidateExtension

SpecExtension == InitExtension /\ [][NextExtension]_vars

(***************************************************************************)
(* SpecGeometry: Grid Geometry on small images and small SliceSpecs.       *)
(***************************************************************************)
SliceSpecs ==
    {[mode |-> "size", slice_size |-> s] : s \in 0 .. MaxGeometry}
    \cup {[mode |-> "grid", rows |-> r, cols |-> c] :
            r \in 0 .. MaxGeometry, c \in 0 .. MaxGeometry}
    \cup {[mode |-> "dimensions", width |-> w, height |-> h] :
            w \in 0 .. MaxGeometry, h \in 0 .. MaxGeometry}

InitGeometry ==
    /\ source = NewImage(0, 0)
    /\ slices = <<>>
    /\ dir = EmptyDir
    /\ saved = NoSave
    /\ \E w \in 1 .. MaxGeometry, h \in 1 .. MaxGeometry, spec \in SliceSpecs :
          last = [op |-> "start", args |-> [width |-> w, height |-> h, spec |-> spec],
                  res |-> Ok(<<>>)]

ComputeGeometry ==
    /\ last.op = "start"
    /\ last' = [op |-> "geometry", args |-> last.args,
                res |-> Geometry(last.args.width, last.args.height, last.args.spec)]
    /\ UNCHANGED <<source, slices, dir, saved>>

NextGeometry == ComputeGeometry

SpecGeometry == InitGeometry /\ [][NextGeometry]_vars

(***************************************************************************)
(* SpecCommand: the assemble command, run again and again on a directory   *)
(* that holds any few of CommandFiles; what it writes stays there.         *)
(***************************************************************************)
Assembled == <<"a", "s", "s", "e", "m", "b", "l", "e", "d">>

\* The rows and the columns given to the command: 0 .. MaxCommandGrid.
MaxCommandGrid == 2

\* The files the slice directory may hold before the command runs.
CommandFiles ==
    { [name |-> FileName(DefaultPrefix, <<"0">>, Png), img |-> Solid(1, 1, "f0")],
      [name |-> FileName(DefaultPrefix, <<"1">>, Png), img |-> Solid(1, 1, "f1")],
      [name |-> FileName(DefaultPrefix, <<"2">>, Png), img |-> Solid(2, 1, "f2")],
      [name |-> FileName(DefaultPrefix, <<"3">>, Png), img |-> EmptyFile],
      [name |-> Assembled \o <<".">> \o Png,           img |-> Solid(1, 1, "old")],
      [name |-> Assembled \o <<".">> \o Jpg,           img |-> Solid(1, 1, "old")] }

\* The output paths given to the command.
OutputPaths ==
    { Assembled \o <<".">> \o Png,
      Assembled \o <<".", "P", "N", "G">>,
      Assembled \o <<".">> \o Jpg,
      Assembled \o <<".", "t", "x", "t">>,
      Assembled,
      FileName(DefaultPrefix, <<"1">>, Png) }

\* poziq assemble SLICE_DIR OUTPUT_PATH --rows --cols [--prefix] [--extension]
AssembleCommand(prefix, extension) ==
    \E found \in CommandLoadOutcomes(dir, prefix, extension) :
      \E output_path \in OutputPaths, rows \in 0 .. MaxCommandGrid,
         cols \in 0 .. MaxCommandGrid :
        LET done == assemble_command(dir, found, output_path, rows, cols)
        IN  /\ dir' = done.dir
            /\ Cardinality(DOMAIN dir') <= MaxDirFiles
            /\ last' = [op |-> "assemble",
                        args |-> [output_path |-> output_path, rows |-> rows,
                                  cols |-> cols, prefix |-> prefix,
                                  extension |-> extension],
                        res |-> done.res]
            /\ UNCHANGED <<source, slices, saved>>

InitCommand ==
    /\ source = NewImage(0, 0)
    /\ slices = <<>>
    /\ dir \in {DirOf(F) : F \in SubsetsUpTo(CommandFiles, MaxFiles)}
    /\ saved = NoSave
    /\ last = Start

\* A run that failed before saving left the directory as it was: running
\* the command after it gives what running it in its place gives, so the
\* command is run at the start and after every run that reached the save.
NextCommand ==
    /\ last.op = "start" \/ last.res.err \in {"", "SaveFailed"}
    /\ \E prefix \in SavePrefixes, extension \in {Png, <<"t", "x", "t">>} :
          AssembleCommand(prefix, extension)

SpecCommand == InitCommand /\ [][NextCommand]_vars

----------------------------------------------------------------------------
(***************************************************************************)
(* The properties.                                                         *)
(***************************************************************************)
\* q = ceil(a / b), said without dividing.
IsCeil(q, a, b) == (q - 1) * b < a /\ a <= q * b

\* The characters of file names in code point order.
CharOrder == <<".">> \o DigitChars \o UpperChars \o <<"_">> \o LowerChars

Ord(c) == CHOOSE i \in DOMAIN CharOrder : CharOrder[i] = c

\* a sorts before b as Python compares strings.
LexLess(a, b) ==
    \E k \in 1 .. (Min(Len(a), Len(b)) + 1) :
        /\ \A i \in 1 .. (k - 1) : a[i] = b[i]
        /\ \/ k > Len(a) /\ k <= Len(b)
           \/ k <= Len(a) /\ k <= Len(b) /\ Ord(a[k]) < Ord(b[k])

\* The number of decimal digits of n >= 1.
DecimalWidth(n) == CHOOSE k \in 1 .. 9 : 10 ^ (k - 1) <= n /\ n < 10 ^ k

\* e is s written in any case after any number of dots.
Normalizes(e, s) ==
    \E k \in 0 .. Len(e) :
        /\ \A i \in 1 .. k : e[i] = "."
        /\ Len(e) - k = Len(s)
        /\ \A i \in 1 .. Len(s) : LowerChar(e[k + i]) = s[i]

\* The whole name is the prefix, '_', one or more digits, '.', the extension.
IsSliceName(name, prefix, extension) ==
    LET digits == SubSeq(name, Len(prefix) + 2, Len(name) - Len(extension) - 1)
    IN  /\ IsDigits(digits)
        /\ name = prefix \o <<"_">> \o digits \o <<".">> \o extension

\* The index in a name that IsSliceName accepts.
SliceIndex(name, prefix, extension) ==
    ParseInt(SubSeq(name, Len(prefix) + 2, Len(name) - Len(extension) - 1))

GeometryContract ==
    last.op = "geometry" /\ last.res.err = "" =>
        LET a == last.args
            g == last.res.value
            back_cols == CHOOSE c \in 1 .. a.width : IsCeil(c, a.width, g.slice_width)
            back_rows == CHOOSE r \in 1 .. a.height : IsCeil(r, a.height, g.slice_height)
        IN  IF a.spec.mode = "grid"
            THEN /\ g.rows = a.spec.rows /\ g.cols = a.spec.cols
                 /\ IsCeil(g.slice_width, a.width, g.cols)
                 /\ IsCeil(g.slice_height, a.height, g.rows)
                 /\ back_cols <= g.cols /\ back_rows <= g.rows
                 /\ back_cols = g.cols <=> (g.cols - 1) * g.slice_width < a.width
                 /\ back_rows = g.rows <=> (g.rows - 1) * g.slice_height < a.height
            ELSE /\ IsCeil(g.cols, a.width, g.slice_width)
                 /\ IsCeil(g.rows, a.height, g.slice_height)
                 /\ a.spec.mode = "size" =>
                        g.slice_width = a.spec.slice_size /\ g.slice_height = a.spec.slice_size
                 /\ a.spec.mode = "dimensions" =>
                        g.slice_width = a.spec.width /\ g.slice_height = a.spec.height

\* C3 is reached: 4 columns asked of a width of 5 give slices 2 wide, of
\* which 3 cover the image.
GeometryReached ==
    /\ last.op = "geometry"
    /\ last.args.spec.mode = "grid"
    /\ last.args.width = 5 /\ last.args.spec.cols = 4
    /\ last.res.err = "" /\ last.res.value.slice_width = 2
    /\ IsCeil(3, last.args.width, last.res.value.slice_width)

(***************************************************************************)
(* C3, as claimed.  In every mode the geometry produced satisfies          *)
(* cols = ceil(width / slice_width) and rows = ceil(height / slice_height).*)
(***************************************************************************)
GeometryCeilingInEveryMode ==
    last.op = "geometry" /\ last.res.err = "" =>
        /\ IsCeil(last.res.value.cols, last.args.width, last.res.value.slice_width)
        /\ IsCeil(last.res.value.rows, last.args.height, last.res.value.slice_height)

(***************************************************************************)
(* C5.  save_slices on N slices returns N paths in index order; the name   *)
(* of slice idx is the prefix, '_', idx zero-padded to the number of       *)
(* decimal digits of N, and '.png'; the names are distinct, and each sorts *)
(* before the next as text, so that sorting the names is sorting by index. *)
(***************************************************************************)
FilenamePadding ==
    last.op = "save_slices" =>
        LET paths == last.res.value
            prefix == last.args.prefix
            n == Len(slices)
            digits(i) == SubSeq(paths[i], Len(prefix) + 2, Len(paths[i]) - Len(PngSuffix))
        IN  /\ Len(paths) = n
            /\ \A i \in 1 .. n :
                /\ paths[i] = prefix \o <<"_">> \o digits(i) \o PngSuffix
                /\ n > 0 => Len(digits(i)) = DecimalWidth(n)
                /\ IsDigits(digits(i))
                /\ ParseInt(digits(i)) = i - 1
                /\ paths[i] \in DOMAIN dir
            /\ Cardinality(Range(paths)) = n
            /\ \A i \in 1 .. (n - 1) : LexLess(paths[i], paths[i + 1])

\* C5 is reached: 100 slices are saved under names of three digits.
FilenamePaddingReached ==
    /\ last.op = "save_slices"
    /\ Len(last.res.value) = 100
    /\ last.res.value[8] = FileName(DefaultPrefix, <<"0", "0", "7">>, Png)

(***************************************************************************)
(* C4.  When slice_image succeeds it returns rows * cols slices, with      *)
(* rows = ceil(height / slice_size) and cols = ceil(width / slice_size),   *)
(* in row-major order; every slice has the full slice size, and the slice  *)
(* of cell (row, col) holds from its origin on the source pixels of the    *)
(* box left = col * slice_size, top = row * slice_size,                    *)
(* right = min((col + 1) * slice_size, width),                             *)
(* bottom = min((row + 1) * slice_size, height), which is never empty.     *)
(***************************************************************************)
SlicedSetInvariant ==
    last.op = "slice_image" /\ last.res.err = "" =>
        LET s == last.args.slice_size
            out == last.res.value
            rows == CHOOSE r \in 1 .. source.h : IsCeil(r, source.h, s)
            cols == CHOOSE c \in 1 .. source.w : IsCeil(c, source.w, s)
        IN  /\ Len(out) = rows * cols
            /\ slices = out
            /\ \A row \in 0 .. (rows - 1), col \in 0 .. (cols - 1) :
                LET img == out[row * cols + col + 1]
                    left == col * s
                    top == row * s
                    right == Min((col + 1) * s, source.w)
                    bottom == Min((row + 1) * s, source.h)
                IN  /\ Size(img) = <<s, s>>
                    /\ left < right /\ top < bottom
                    /\ \A x \in 0 .. (right - left - 1), y \in 0 .. (bottom - top - 1) :
                          img.px[<<x, y>>] = source.px[<<left + x, top + y>>]

\* C4 is reached: a 3x3 image in slices of 2 gives four slices, the last
\* one holding one source pixel and padding.
SlicedSetReached ==
    /\ last.op = "slice_image" /\ last.res.err = ""
    /\ Size(source) = <<3, 3>> /\ last.args.slice_size = 2
    /\ Len(last.res.value) = 4
    /\ last.res.value[2].px[<<0, 0>>] = <<"src", 2, 0>>
    /\ last.res.value[4].px[<<0, 0>>] = <<"src", 2, 2>>
    /\ last.res.value[4].px[<<1, 1>>] = Fill

(***************************************************************************)
(* C1.  After save_slices has written the slices slice_image made of the   *)
(* source, assemble_image on that directory with the prefix of the save    *)
(* and the rows and cols of the slicing returns, when the directory holds  *)
(* no other slice file of that prefix, an image, and every image it        *)
(* returns equals the source at every (x, y) inside the source.            *)
(***************************************************************************)
RoundTrip ==
    (/\ last.op = "assemble_image"
     /\ saved.paths # <<>>
     /\ last.args.prefix = saved.prefix
     /\ validate_extension(last.args.extension) = Ok(Png)
     /\ IsCeil(last.args.rows, source.h, slices[1].h)
     /\ IsCeil(last.args.cols, source.w, slices[1].w))
    =>
        /\ {n \in DOMAIN dir : IsSliceName(n, saved.prefix, Png)} \subseteq Range(saved.paths)
              => last.res.err = ""
        /\ last.res.err = "" =>
              \A p \in Coords(source.w, source.h) : last.res.value.px[p] = source.px[p]

\* C1 is reached: a 3x3 image cut in slices of 2 comes back inside an
\* assembled image of 4x4.
RoundTripReached ==
    /\ last.op = "assemble_image" /\ last.res.err = ""
    /\ Len(saved.paths) = 4 /\ last.args.prefix = saved.prefix
    /\ Size(source) = <<3, 3>> /\ Size(slices[1]) = <<2, 2>>
    /\ last.args.rows = 2 /\ last.args.cols = 2
    /\ Size(last.res.value) = <<4, 4>>
    /\ last.res.value.px[<<2, 1>>] = <<"src", 2, 1>>
    /\ last.res.value.px[<<3, 3>>] = Fill

\* The output directory held nothing when the slice command began.
OnlySlicesOf(prefix) ==
    \A n \in DOMAIN dir : \E e \in SUPPORTED_EXTENSIONS : IsSliceName(n, prefix, e)

\* The slice command was given rows and cols and a supported extension.
GridCommand ==
    /\ last.op = "slice_command"
    /\ last.args.rows # <<>> /\ last.args.cols # <<>>
    /\ last.args.slice_width = <<>> /\ last.args.slice_height = <<>>
    /\ validate_extension(last.args.extension).err = ""

(***************************************************************************)
(* C2, as claimed.  The slice command with rows and cols leaves            *)
(* rows * cols slices, each of size (ceil(width / cols),                   *)
(* ceil(height / rows)), and assembling them with the same rows and cols   *)
(* gives an image of size (cols * slice_width, rows * slice_height).       *)
(***************************************************************************)
GridModeSlicing ==
    GridCommand /\ OnlySlicesOf(last.args.prefix) =>
        LET rows == last.args.rows[1]
            cols == last.args.cols[1]
            ext == validate_extension(last.args.extension).value
            slice_width == CHOOSE q \in 1 .. source.w : IsCeil(q, source.w, cols)
            slice_height == CHOOSE q \in 1 .. source.h : IsCeil(q, source.h, rows)
        IN  /\ last.res.err = ""
            /\ Cardinality(DOMAIN dir) = rows * cols
            /\ \A n \in DOMAIN dir : Size(dir[n]) = <<slice_width, slice_height>>
            /\ \A found \in LoadOutcomes(dir, last.args.prefix, ext) :
                  LET whole == AssembleLoaded(found, rows, cols)
                  IN  /\ whole.err = ""
                      /\ Size(whole.value) = <<cols * slice_width, rows * slice_height>>

(***************************************************************************)
(* C6, as claimed.  The slice command writes every slice under the         *)
(* extension it is given: with rows, cols, a prefix and a supported        *)
(* extension it ends well and leaves rows * cols files whose whole name is *)
(* the prefix, '_', the index and '.' with that extension, which a load    *)
(* with the same prefix and extension finds.                               *)
(***************************************************************************)
WriterUsesExtension ==
    GridCommand =>
        LET ext == validate_extension(last.args.extension).value
            written == {n \in DOMAIN dir : IsSliceName(n, last.args.prefix, ext)}
        IN  /\ last.res.err = ""
            /\ {SliceIndex(n, last.args.prefix, ext) : n \in written}
                  = 0 .. (last.args.rows[1] * last.args.cols[1] - 1)
            /\ \A found \in LoadOutcomes(dir, last.args.prefix, ext) :
                  /\ found.err = ""
                  /\ Len(found.value) = last.args.rows[1] * last.args.cols[1]

(***************************************************************************)
(* C8, as claimed.  load_slices returns one (image, idx) pair for exactly  *)
(* the files whose whole name is the prefix, '_', digits, '.' and the      *)
(* extension, idx being the value of the digits, in ascending order of idx *)
(* whatever the order of the directory; it ignores every other file and    *)
(* fails with the no-slices-found error exactly when no file matches.      *)
(***************************************************************************)
LoadFindsSliceFiles ==
    last.op = "load_slices" /\ validate_extension(last.args.extension).err = "" =>
        LET prefix == last.args.prefix
            ext == validate_extension(last.args.extension).value
            matching == {n \in DOMAIN dir : IsSliceName(n, prefix, ext)}
            found == last.res.value
        IN  /\ last.res.err = "NoSlicesFound" <=> matching = {}
            /\ matching # {} =>
                /\ last.res.err = ""
                /\ Len(found) = Cardinality(matching)
                /\ \A n \in matching : \E k \in DOMAIN found :
                      found[k] = [img |-> dir[n], idx |-> SliceIndex(n, prefix, ext)]
                /\ \A k \in 1 .. (Len(found) - 1) : found[k].idx <= found[k + 1].idx

(***************************************************************************)
(* C9, as amended.  validate_dimensions on an empty list fails with the    *)
(* no-slices-provided error whatever rows and cols are.  On a list that is *)
(* not empty it fails with the count-mismatch error, naming rows * cols as *)
(* the expected count, whenever len(slices) # rows * cols, size mismatches *)
(* or not; otherwise it fails with the size-mismatch error naming the      *)
(* index of the first slice whose size differs from the first slice's; and *)
(* it returns the first slice's (width, height) exactly when the count     *)
(* matches and all slices have that size.                                  *)
(***************************************************************************)
ValidateDimensionsOrder ==
    last.op = "validate_dimensions" =>
        LET items == last.args.items
            expected == last.args.rows * last.args.cols
            r == last.res
            bad == {k \in DOMAIN items : Size(items[k].img) # Size(items[1].img)}
        IN  IF items = <<>> THEN r.err = "NoSlicesProvided"
            ELSE /\ Len(items) # expected =>
                      r.err = "CountMismatch" /\ r.info = <<expected, Len(items)>>
                 /\ Len(items) = expected /\ bad # {} =>
                      /\ r.err = "SizeMismatch"
                      /\ \E k \in bad : (\A j \in bad : k <= j) /\ r.info = <<items[k].idx>>
                 /\ r.err = "" <=> Len(items) = expected /\ bad = {}
                 /\ r.err = "" => r.value = Size(items[1].img)

\* C9 is reached: of three slices that were expected the third has another
\* size, and the error names index 2.
ValidateDimensionsReached ==
    /\ last.op = "validate_dimensions"
    /\ Len(last.args.items) = 3
    /\ last.args.rows * last.args.cols = 3
    /\ Size(last.args.items[3].img) # Size(last.args.items[1].img)
    /\ last.res.err = "SizeMismatch" /\ last.res.info = <<2>>

(***************************************************************************)
(* C9, as claimed.  validate_dimensions fails with the count-mismatch      *)
(* error whenever len(slices) # rows * cols, and returns the first slice's *)
(* size exactly when the count matches and all slices have that size.      *)
(***************************************************************************)
ValidateDimensionsCountFirst ==
    last.op = "validate_dimensions" =>
        LET items == last.args.items
            expected == last.args.rows * last.args.cols
            bad == {k \in DOMAIN items : Size(items[k].img) # Size(items[1].img)}
        IN  /\ Len(items) # expected => last.res.err = "CountMismatch"
            /\ last.res.err = "" <=> Len(items) = expected /\ bad = {}

(***************************************************************************)
(* C10, as claimed.  assemble_image on slices that validate returns an     *)
(* image of size (cols * slice_width, rows * slice_height) in which the    *)
(* slice of index idx lies at ((idx mod cols) * slice_width,               *)
(* (idx div cols) * slice_height), and the image is the same in whatever   *)
(* order the directory lists the files.                                    *)
(***************************************************************************)
AssembleByIndex ==
    last.op = "assemble_image" /\ last.res.err = "" =>
        LET a == last.args
            whole == last.res.value
        IN  \A found \in LoadOutcomes(dir, a.prefix, a.extension) :
                LET slice_width == found.value[1].img.w
                    slice_height == found.value[1].img.h
                IN  /\ Size(whole) = <<a.cols * slice_width, a.rows * slice_height>>
                    /\ AssembleLoaded(found, a.rows, a.cols) = last.res
                    /\ \A k \in DOMAIN found.value :
                          LET x == (found.value[k].idx % a.cols) * slice_width
                              y == (found.value[k].idx \div a.cols) * slice_height
                          IN  \A p \in Coords(slice_width, slice_height) :
                                 <<x + p[1], y + p[2]>> \in DOMAIN whole.px =>
                                    whole.px[<<x + p[1], y + p[2]>>] = found.value[k].img.px[p]

(***************************************************************************)
(* C11.  The assemble command writes its output file only after loading    *)
(* and validation have succeeded: a run changes the directory only when    *)
(* the output extension is supported and assemble_image succeeds; and      *)
(* whenever it fails (unsupported output extension, load error, slice      *)
(* count different from rows * cols, inconsistent slice sizes, and also    *)
(* when the save itself fails) it ends with a non-zero exit status and an  *)
(* error message, and no file exists at output_path that did not exist     *)
(* before the run; a run that fails before the save leaves every file as   *)
(* it was.                                                                 *)
(***************************************************************************)
AssembleWritesAfterValidation ==
    [][ last'.op = "assemble" =>
          LET a == last'.args
              r == last'.res
              output_ext == Lower(LStripDots(Suffix(a.output_path)))
              outcomes == {AssembleLoaded(found, a.rows, a.cols) :
                             found \in CommandLoadOutcomes(dir, a.prefix, a.extension)}
              valid == output_ext \in SUPPORTED_EXTENSIONS /\ \E o \in outcomes : o.err = ""
          IN  /\ dir' # dir => valid
              /\ ~valid => r.err \in {"UnsupportedFormat", "NoSlicesFound", "Decode",
                                      "CountMismatch", "SizeMismatch"}
              /\ r.err # "" =>
                    /\ r.value # 0
                    /\ r.info # <<>> /\ Head(r.info) \in {"Error: ", "Error: Failed to process images: "}
                    /\ DOMAIN dir' \subseteq DOMAIN dir
              /\ r.err \notin {"", "SaveFailed"} => dir' = dir
              /\ r.err = "" => r.value = 0 /\ a.output_path \in DOMAIN dir'
      ]_vars

\* C11 is reached: a run on slices that are not rows * cols in number
\* ended with status 1 and its message, and output_path names no file.
AssembleFailureReached ==
    /\ last.op = "assemble"
    /\ last.res.err = "CountMismatch"
    /\ last.res.value = 1
    /\ Lower(LStripDots(Suffix(last.args.output_path))) \in SUPPORTED_EXTENSIONS
    /\ last.args.output_path \notin DOMAIN dir

(***************************************************************************)
(* C12, as claimed.  Whenever load_slices and validate_dimensions both     *)
(* succeed inside assemble_image, the loaded indices are pairwise distinct *)
(* and are exactly 0 .. rows * cols - 1, so that every cell of the grid    *)
(* receives exactly one slice and no slice is pasted at an origin outside  *)
(* the (cols * slice_width, rows * slice_height) output image.             *)
(***************************************************************************)
LoadedIndicesCoverGrid ==
    last.op = "assemble_image" /\ last.res.err = "" =>
        LET a == last.args
        IN  \A found \in LoadOutcomes(dir, a.prefix, a.extension) :
                LET items == found.value
                    slice_width == items[1].img.w
                    slice_height == items[1].img.h
                    origin(k) == PasteOrigin(items[k].idx, a.cols, slice_width, slice_height)
                IN  /\ \A i, j \in DOMAIN items : i # j => items[i].idx # items[j].idx
                    /\ {items[k].idx : k \in DOMAIN items} = 0 .. (a.rows * a.cols - 1)
                    /\ \A row \in 0 .. (a.rows - 1), col \in 0 .. (a.cols - 1) :
                          Cardinality({k \in DOMAIN items :
                              origin(k) = <<col * slice_width, row * slice_height>>}) = 1
                    /\ \A k \in DOMAIN items :
                          /\ origin(k)[1] < a.cols * slice_width
                          /\ origin(k)[2] < a.rows * slice_height

====
